---- MODULE Spec2Model ----
(***************************************************************************)
(* A model of onward: typed operations registered on a Plan, a dependency  *)
(* graph inferred from their declared types (graphlib.TopologicalSorter),  *)
(* three executors, and the orchestrator loop Plan.start_or_resume.        *)
(***************************************************************************)
EXTENDS Integers, Sequences, FiniteSets, TLC

VARIABLES
    executorKind,   \* the class of __onward_executor__ (PlanMeta.__new__)
    loopClosed,     \* AsyncioExecutor.loop.is_closed()
    operations,     \* Plan.__onward_operations__, in insertion order
    graph,          \* Plan.__onward_operation_graph__ (one per Plan class)
    instances,      \* number of PlanInstances constructed successfully
    states,         \* Plan.__onward_states__: OutputKey -> recorded value
    inflight,       \* the executor's schedule / futures / tasks
    pc,             \* "idle", or "running" inside start_or_resume
    lastCall,       \* the latest call of the public surface and how it ended
    tracker,        \* history: keys of the operation bodies, in execution order
    submitted,      \* history: keys handed to the executor, in submission order
    surfaced,       \* history: keys returned by get_ready, in order
    writes,         \* history: keys written to the result mapping, in order
    lastJoin,       \* history: what the latest join_next returned or raised
    joins,          \* history: number of join_next calls that ended
    calls           \* number of start_or_resume calls made

vars == <<executorKind, loopClosed, operations, graph, instances, states,
          inflight, pc, lastCall, tracker, submitted, surfaced, writes,
          lastJoin, joins, calls>>

(***************************************************************************)
(* Bounds of the model.                                                    *)
(***************************************************************************)
MaxOps == 3
MaxCalls == 2
MaxSubmits == 3
MaxJoins == 3

(***************************************************************************)
(* Types, values and errors.                                               *)
(***************************************************************************)
StateTypes == {"A", "B", "C"}
PlanType == "Plan"
NoneType == "NoneType"
NoneValue == "None"
ExecutorKinds == {"SynchronousExecutor", "ThreadedExecutor", "AsyncioExecutor"}

NoError == [kind |-> "none", by |-> "-"]
Err(kind, by) == [kind |-> kind, by |-> by]

\* graphlib's node states, kept in npredecessors
NODE_OUT == 0 - 1
NODE_DONE == 0 - 2

Range(s) == {s[i] : i \in 1..Len(s)}

(***************************************************************************)
(* Function declarations offered to @operation: a name, the annotations of *)
(* the parameters in declaration order, the return annotation and whether  *)
(* the function is a coroutine function.                                   *)
(***************************************************************************)
Fn(name, params, returns, isAsync) ==
    [name |-> name, params |-> params, returns |-> returns, isAsync |-> isAsync]

Functions ==
    { Fn("operation1", <<PlanType>>, "A", FALSE),
      Fn("operation2", <<PlanType, "A">>, "B", FALSE),
      Fn("operation3", <<"A", "B">>, NoneType, FALSE),
      Fn("operation4", <<"A">>, "C", TRUE),
      Fn("operation5", <<"C">>, "A", FALSE),
      Fn("operation6", <<"B">>, "B", FALSE),
      Fn("operation3", <<PlanType>>, "C", FALSE),
      Fn("operation7", <<PlanType>>, NoneType, FALSE),
      Fn("operation8", <<"A", "A">>, NoneType, FALSE),
      Fn("operation3", <<PlanType, "A">>, NoneType, TRUE),
      Fn("operation9", <<PlanType, "int">>, "int", FALSE) }

(***************************************************************************)
(* SyncOperation / AsyncOperation                                          *)
(***************************************************************************)
\* the id property: the declared return type, or the function's name
OperationId(op) == IF op.provides # NoneType THEN op.provides ELSE op.name

Keys(ops) == {OperationId(ops[i]) : i \in 1..Len(ops)}

Lookup(ops, key) == ops[CHOOSE i \in 1..Len(ops) : OperationId(ops[i]) = key]

\* hint_map[dep_state] = dep_name, a later parameter of the same type
\* overwriting an earlier one; parameters are named by their position
HintMap(params) ==
    [t \in Range(params) |->
        CHOOSE i \in 1..Len(params) :
            /\ params[i] = t
            /\ \A j \in 1..Len(params) : params[j] = t => j <= i]

IsStateType(t) == t \in StateTypes

\* the @operation decorator: validates the declaration, builds the descriptor
\* and inserts it in the registry; yields the error raised and the registry
RegisterDuplicate(fn, op, ops) ==
    \* other_op = plan.__onward_operations__[operation.id]
    IF OperationId(op) \notin Keys(ops)
    THEN [error |-> Err("KeyError", fn.name), ops |-> ops]
    ELSE [error |-> Err("TooManyProvidersError", fn.name), ops |-> ops]

RegisterInsert(fn, op, ops) ==
    [error |-> NoError, ops |-> Append(ops, op)]

operation(fn, ops) ==
    IF fn.returns = "missing"
    THEN [error |-> Err("InvalidOperationSignatureError", fn.name), ops |-> ops]
    ELSE IF ~IsStateType(fn.returns) /\ fn.returns # NoneType
    THEN [error |-> Err("InvalidOperationSignatureError", fn.name), ops |-> ops]
    ELSE IF Len(fn.params) = 0
    THEN [error |-> Err("InvalidOperationSignatureError", fn.name), ops |-> ops]
    ELSE IF \E i \in 1..Len(fn.params) : fn.params[i] = "untyped"
    THEN [error |-> Err("InvalidOperationSignatureError", fn.name), ops |-> ops]
    ELSE IF \E i \in 1..Len(fn.params) :
                ~IsStateType(fn.params[i]) /\ fn.params[i] # PlanType
    THEN [error |-> Err("InvalidOperationSignatureError", fn.name), ops |-> ops]
    ELSE
        LET op == [name |-> fn.name,
                   dependencies |-> fn.params,
                   provides |-> fn.returns,
                   hint_map |-> HintMap(fn.params),
                   isAsync |-> fn.isAsync]
        IN  IF op.provides \in Keys(ops) \/ op.name \in Keys(ops)
            THEN RegisterDuplicate(fn, op, ops)
            ELSE RegisterInsert(fn, op, ops)

(***************************************************************************)
(* graphlib.TopologicalSorter, as Plan uses it                             *)
(***************************************************************************)
EmptyGraph ==
    [order |-> <<>>, npred |-> <<>>, succ |-> <<>>, prepared |-> FALSE,
     ready |-> <<>>, npassedout |-> 0, nfinished |-> 0]

Nodes(g) == Range(g.order)

\* _get_nodeinfo: a node not seen before gets npredecessors 0, no successors
GetNodeInfo(g, node) ==
    IF node \in Nodes(g) THEN g
    ELSE [g EXCEPT !.order = Append(g.order, node),
                   !.npred = [n \in Nodes(g) \cup {node} |->
                                 IF n = node THEN 0 ELSE g.npred[n]],
                   !.succ = [n \in Nodes(g) \cup {node} |->
                                 IF n = node THEN <<>> ELSE g.succ[n]]]

RECURSIVE AddPredecessors(_, _, _)
AddPredecessors(g, node, preds) ==
    IF preds = <<>> THEN g
    ELSE LET g1 == GetNodeInfo(g, Head(preds))
         IN  AddPredecessors(
                 [g1 EXCEPT !.succ[Head(preds)] = Append(@, node)],
                 node, Tail(preds))

\* add(node, *predecessors); the caller checks _ready_nodes first
GraphAdd(g, node, preds) ==
    LET g1 == GetNodeInfo(g, node)
        g2 == [g1 EXCEPT !.npred[node] = @ + Len(preds)]
    IN  AddPredecessors(g2, node, preds)

RECURSIVE Descendants(_, _)
Descendants(g, S) ==
    LET T == S \cup UNION {Range(g.succ[n]) : n \in S}
    IN  IF T = S THEN S ELSE Descendants(g, T)

\* _find_cycle
HasCycle(g) == \E n \in Nodes(g) : n \in Descendants(g, Range(g.succ[n]))

\* prepare(): the ready nodes are set before the cycle check
GraphPrepare(g) ==
    [g EXCEPT !.prepared = TRUE,
              !.ready = SelectSeq(g.order, LAMBDA n : g.npred[n] = 0)]

\* get_ready()
GraphGetReady(g) ==
    [g EXCEPT !.npred = [n \in Nodes(g) |->
                            IF n \in Range(g.ready) THEN NODE_OUT ELSE g.npred[n]],
              !.ready = <<>>,
              !.npassedout = @ + Len(g.ready)]

\* a variant that does not compare with the number of finished nodes
GraphIsActiveIgnoresFinished(g) == g.npassedout > 0 \/ g.ready # <<>>

\* is_active()
GraphIsActive(g) == g.nfinished < g.npassedout \/ g.ready # <<>>

RECURSIVE ReleaseSuccessors(_, _)
ReleaseSuccessors(g, succs) ==
    IF succs = <<>> THEN g
    ELSE LET s == Head(succs)
             g1 == [g EXCEPT !.npred[s] = @ - 1]
             g2 == IF g1.npred[s] = 0
                   THEN [g1 EXCEPT !.ready = Append(@, s)] ELSE g1
         IN  ReleaseSuccessors(g2, Tail(succs))

\* done(node) raises ValueError unless the node was passed out and is not done
GraphCanDone(g, node) == node \in Nodes(g) /\ g.npred[node] = NODE_OUT

GraphDone(g, node) ==
    LET g1 == [g EXCEPT !.npred[node] = NODE_DONE]
        g2 == ReleaseSuccessors(g1, g.succ[node])
    IN  [g2 EXCEPT !.nfinished = @ + 1]

(***************************************************************************)
(* Plan.__init__                                                           *)
(***************************************************************************)
StateDependencies(op) == SelectSeq(op.dependencies, IsStateType)

RECURSIVE AddRegistry(_, _)
AddRegistry(g, ops) ==
    IF ops = <<>> THEN g
    ELSE AddRegistry(
             GraphAdd(g, OperationId(Head(ops)), StateDependencies(Head(ops))),
             Tail(ops))

\* yields the error raised and the class's graph afterwards; add() and
\* prepare() raise ValueError on a sorter that has been prepared
PlanInit(g, ops) ==
    IF ops # <<>> /\ g.prepared
    THEN [error |-> Err("ValueError", "add"), graph |-> g]
    ELSE LET g1 == AddRegistry(g, ops)
         IN  IF g1.prepared
             THEN [error |-> Err("ValueError", "prepare"), graph |-> g1]
             ELSE IF HasCycle(g1)
             THEN [error |-> Err("CycleError", "prepare"), graph |-> GraphPrepare(g1)]
             ELSE [error |-> NoError, graph |-> GraphPrepare(g1)]

Call(name, arg, error) == [name |-> name, arg |-> arg, error |-> error]

(***************************************************************************)
(* Invocation: the descriptor call and _operation_wrapper                     *)
(***************************************************************************)
\* the runtime type of the argument resolved for a dependency
ArgType(dep, sts) == IF IsStateType(dep) THEN sts[dep] ELSE PlanType

\* __call__: the keyword arguments {hint_map[type(arg)]: arg for arg in args}
Kwargs(op, sts) ==
    {op.hint_map[ArgType(op.dependencies[i], sts)] : i \in 1..Len(op.dependencies)}

\* the deferred unit handed to an executor, not started
Unit(op, sts) ==
    [key |-> OperationId(op),
     provides |-> op.provides,
     callable |-> Kwargs(op, sts) = 1..Len(op.dependencies),
     st |-> "pending", value |-> NoneValue, error |-> NoError]

\* what a body may do: return a value (named by its runtime type) or raise
OtherValue(provides) == IF provides = "A" THEN "B" ELSE "A"

BodyOutcomes(u) ==
    {[raises |-> FALSE, value |-> v] :
        v \in {NoneValue, OtherValue(u.provides)}
              \cup (IF u.provides = NoneType THEN {} ELSE {u.provides})}
    \cup {[raises |-> TRUE, value |-> NoneValue]}

\* a variant that returns whatever the body returned, for every declaration
operation_wrapper_unchecked(u, state_value) ==
    [u EXCEPT !.st = "returned", !.value = state_value]

\* _operation_wrapper after self.function(**kwargs) returned state_value
operation_wrapper(u, state_value) ==
    IF u.provides # NoneType
    THEN IF state_value # u.provides          \* not isinstance(...)
         THEN [u EXCEPT !.st = "raised",
                        !.error = Err("InvalidOperationReturnError", u.key)]
         ELSE IF state_value = NoneValue
         THEN [u EXCEPT !.st = "raised",
                        !.error = Err("InvalidOperationReturnError", u.key)]
         ELSE [u EXCEPT !.st = "returned", !.value = state_value]
    ELSE [u EXCEPT !.st = "returned", !.value = state_value]

\* calling the unit: the function is entered only if every parameter is bound
Invoke(u, o) ==
    IF ~u.callable
    THEN [u EXCEPT !.st = "raised", !.error = Err("TypeError", u.key)]
    ELSE IF o.raises
    THEN [u EXCEPT !.st = "raised", !.error = Err("BodyError", u.key)]
    ELSE operation_wrapper(u, o.value)

\* the keys of the bodies entered by a call of the unit
Entered(u) == IF u.callable THEN <<u.key>> ELSE <<>>

(***************************************************************************)
(* Executors                                                               *)
(***************************************************************************)
UnitKeys(us) == [i \in 1..Len(us) |-> us[i].key]

RemoveAt(s, i) == SubSeq(s, 1, i - 1) \o SubSeq(s, i + 1, Len(s))

\* self.tasks[key] = task
DictSet(tasks, u) ==
    IF \E i \in 1..Len(tasks) : tasks[i].key = u.key
    THEN [i \in 1..Len(tasks) |-> IF tasks[i].key = u.key THEN u ELSE tasks[i]]
    ELSE Append(tasks, u)

RECURSIVE DictSetAll(_, _)
DictSetAll(tasks, us) ==
    IF us = <<>> THEN tasks ELSE DictSetAll(DictSet(tasks, Head(us)), Tail(us))

\* del self.tasks[key]
DictDel(tasks, key) == SelectSeq(tasks, LAMBDA u : u.key # key)

\* the running property
running(kind, closed, fl) ==
    IF kind = "AsyncioExecutor" THEN Len(fl) > 0 \/ closed ELSE Len(fl) > 0

\* a variant that assigns the batch instead of extending what is in flight
add_operations_replaces(kind, closed, fl, batch) ==
    IF kind = "AsyncioExecutor"
    THEN IF batch # <<>> /\ closed
         THEN [error |-> Err("RuntimeError", "create_task"), inflight |-> fl]
         ELSE [error |-> NoError, inflight |-> DictSetAll(<<>>, batch)]
    ELSE [error |-> NoError, inflight |-> batch]

\* add_operations: the error raised and the in-flight units
add_operations(kind, closed, fl, batch) ==
    IF kind = "AsyncioExecutor"
    THEN IF batch # <<>> /\ closed      \* loop.create_task on a closed loop
         THEN [error |-> Err("RuntimeError", "create_task"), inflight |-> fl]
         ELSE [error |-> NoError, inflight |-> DictSetAll(fl, batch)]
    ELSE [error |-> NoError, inflight |-> fl \o batch]

\* a variant in which every executor schedules the coroutines
add_async_operations_accepts(kind, closed, fl, batch) ==
    IF batch # <<>> /\ closed
    THEN [error |-> Err("RuntimeError", "create_task"), inflight |-> fl]
    ELSE [error |-> NoError, inflight |-> DictSetAll(fl, batch)]

\* add_async_operations: Executor's default raises, AsyncioExecutor creates
\* a task per coroutine
add_async_operations(kind, closed, fl, batch) ==
    IF kind = "AsyncioExecutor"
    THEN IF batch # <<>> /\ closed
         THEN [error |-> Err("RuntimeError", "create_task"), inflight |-> fl]
         ELSE [error |-> NoError, inflight |-> DictSetAll(fl, batch)]
    ELSE [error |-> Err("AsyncNotSupported", "add_async_operations"), inflight |-> fl]

Joined(error, u, fl, ran) ==
    [error |-> error, value |-> u.value, key |-> u.key, inflight |-> fl, ran |-> ran]

Finished(fl) == {i \in 1..Len(fl) : fl[i].st # "pending"}

\* a variant that takes the oldest unit, self.schedule.pop(0)()
SynchronousJoinNextFifo(fl) ==
    {LET u == Invoke(fl[1], o)
     IN  Joined(u.error, u, SubSeq(fl, 2, Len(fl)), Entered(u)) :
        o \in BodyOutcomes(fl[1])}

\* SynchronousExecutor.join_next: self.schedule.pop()()
SynchronousJoinNext(fl) ==
    {LET u == Invoke(fl[Len(fl)], o)
     IN  Joined(u.error, u, SubSeq(fl, 1, Len(fl) - 1), Entered(u)) :
        o \in BodyOutcomes(fl[Len(fl)])}

\* a variant that leaves the completed future in self.futures
ThreadedJoinNextKeepsFuture(fl) ==
    {Joined(fl[i].error, fl[i], fl, <<>>) : i \in Finished(fl)}

\* ThreadedExecutor.join_next: the next completed future is removed, then
\* its result() is returned or raises
ThreadedJoinNext(fl) ==
    {Joined(fl[i].error, fl[i], RemoveAt(fl, i), <<>>) : i \in Finished(fl)}

\* a variant that ends with self.tasks.clear()
AsyncioJoinNextClears(fl) ==
    IF fl = <<>>
    THEN {Joined(Err("StopIteration", "join_next"), [value |-> NoneValue, key |-> "-"],
                 fl, <<>>)}
    ELSE {Joined(fl[i].error, fl[i],
                 IF fl[i].st = "raised" THEN fl ELSE <<>>,
                 <<>>) : i \in Finished(fl)}

\* AsyncioExecutor.join_next: run_until_complete of the next completed task;
\* the task is deleted from self.tasks only after it returned
AsyncioJoinNext(fl) ==
    IF fl = <<>>
    THEN {Joined(Err("StopIteration", "join_next"), [value |-> NoneValue, key |-> "-"],
                 fl, <<>>)}
    ELSE {Joined(fl[i].error, fl[i],
                 IF fl[i].st = "raised" THEN fl ELSE DictDel(fl, fl[i].key),
                 <<>>) : i \in Finished(fl)}

\* join_next(): the outcomes the call may have; none while it blocks
join_next(kind, closed, fl) ==
    IF ~running(kind, closed, fl)
    THEN {Joined(Err("NotRunningError", "join_next"),
                 [value |-> NoneValue, key |-> "-"], fl, <<>>)}
    ELSE CASE kind = "SynchronousExecutor" -> SynchronousJoinNext(fl)
           [] kind = "ThreadedExecutor" -> ThreadedJoinNext(fl)
           [] kind = "AsyncioExecutor" -> AsyncioJoinNext(fl)

\* join_next(timeout) when the window ends and no in-flight unit has finished:
\* the outcomes of the call at that instant, none if it keeps waiting.
\* as_completed(self.futures, timeout=timeout) raises TimeoutError from next();
\* SynchronousExecutor and AsyncioExecutor do not use the argument
join_next_expiry(kind, closed, fl) ==
    IF kind = "ThreadedExecutor"
    THEN {Joined(Err("TimeoutError", "join_next"),
                 [value |-> NoneValue, key |-> "-"], fl, <<>>)}
    ELSE {}

(***************************************************************************)
(* Plan.start_or_resume: one iteration of the loop                         *)
(***************************************************************************)
\* self.__onward_states__[key] = value
DictPut(d, k, v) == [x \in DOMAIN d \cup {k} |-> IF x = k THEN v ELSE d[x]]

\* the for loop over the ready nodes fails at the first node whose
\* descriptor or argument cannot be resolved
Resolvable(ops, sts, node) ==
    /\ node \in Keys(ops)
    /\ LET op == Lookup(ops, node)
       IN  \A i \in 1..Len(op.dependencies) :
              /\ IsStateType(op.dependencies[i]) => op.dependencies[i] \in DOMAIN sts
              /\ ArgType(op.dependencies[i], sts) \in DOMAIN op.hint_map

PartialsOf(ops, sts, nodes, isAsync) ==
    LET chosen == SelectSeq(nodes, LAMBDA n : Lookup(ops, n).isAsync = isAsync)
    IN  [i \in 1..Len(chosen) |-> Unit(Lookup(ops, chosen[i]), sts)]

\* the dispatch branch: the error raised, the in-flight units and the keys
\* submitted
Dispatch(nodes, ops, sts, kind, closed, fl) ==
    IF \E i \in 1..Len(nodes) : ~Resolvable(ops, sts, nodes[i])
    THEN [error |-> Err("KeyError", "dispatch"), inflight |-> fl, submitted |-> <<>>]
    ELSE LET sync_partials == PartialsOf(ops, sts, nodes, FALSE)
             async_partials == PartialsOf(ops, sts, nodes, TRUE)
             r1 == add_operations(kind, closed, fl, sync_partials)
             r2 == add_async_operations(kind, closed, r1.inflight, async_partials)
         IN  IF r1.error # NoError
             THEN [error |-> r1.error, inflight |-> r1.inflight, submitted |-> <<>>]
             ELSE IF async_partials = <<>>
             THEN [error |-> NoError, inflight |-> r1.inflight,
                   submitted |-> UnitKeys(sync_partials)]
             ELSE IF r2.error # NoError
             THEN [error |-> r2.error, inflight |-> r2.inflight,
                   submitted |-> UnitKeys(sync_partials)]
             ELSE [error |-> NoError, inflight |-> r2.inflight,
                   submitted |-> UnitKeys(sync_partials) \o UnitKeys(async_partials)]

\* a variant that marks the node done without recording its value
RecordResultSkipsWrite(r, sts, g) ==
    IF r.error # NoError
    THEN [error |-> r.error, states |-> sts, graph |-> g, wrote |-> <<>>]
    ELSE IF ~GraphCanDone(g, r.key)
    THEN [error |-> Err("ValueError", "done"), states |-> sts, graph |-> g,
          wrote |-> <<>>]
    ELSE [error |-> NoError, states |-> sts, graph |-> GraphDone(g, r.key),
          wrote |-> <<>>]

\* a variant that catches what join_next raised and marks the node done
RecordResultSwallows(r, sts, g) ==
    IF GraphCanDone(g, r.key)
    THEN [error |-> NoError,
          states |-> IF IsStateType(r.key) /\ r.error = NoError
                     THEN DictPut(sts, r.key, r.value) ELSE sts,
          graph |-> GraphDone(g, r.key),
          wrote |-> IF IsStateType(r.key) /\ r.error = NoError
                    THEN <<r.key>> ELSE <<>>]
    ELSE [error |-> r.error, states |-> sts, graph |-> g, wrote |-> <<>>]

\* a variant without the isinstance(next_state, str) test: every joined value
\* is written under its key
RecordResultWritesNames(r, sts, g) ==
    IF r.error # NoError
    THEN [error |-> r.error, states |-> sts, graph |-> g, wrote |-> <<>>]
    ELSE IF ~GraphCanDone(g, r.key)
    THEN [error |-> Err("ValueError", "done"),
          states |-> DictPut(sts, r.key, r.value), graph |-> g, wrote |-> <<r.key>>]
    ELSE [error |-> NoError, states |-> DictPut(sts, r.key, r.value),
          graph |-> GraphDone(g, r.key), wrote |-> <<r.key>>]

\* the join branch after join_next returned or raised: the error raised, the
\* result mapping, the graph and the keys written
RecordResult(r, sts, g) ==
    IF r.error # NoError
    THEN [error |-> r.error, states |-> sts, graph |-> g, wrote |-> <<>>]
    ELSE IF IsStateType(r.key) /\ r.value = NoneValue
    THEN [error |-> Err("InvalidOperationReturnError", r.key),
          states |-> sts, graph |-> g, wrote |-> <<>>]
    ELSE LET sts1 == IF IsStateType(r.key) THEN DictPut(sts, r.key, r.value) ELSE sts
             wrote == IF IsStateType(r.key) THEN <<r.key>> ELSE <<>>
         IN  IF ~GraphCanDone(g, r.key)
             THEN [error |-> Err("ValueError", "done"),
                   states |-> sts1, graph |-> g, wrote |-> wrote]
             ELSE [error |-> NoError,
                   states |-> sts1, graph |-> GraphDone(g, r.key), wrote |-> wrote]

(***************************************************************************)
(* Plan.get_state_value                                                    *)
(***************************************************************************)
\* a variant that subscripts the mapping, self.__onward_states__[state_type]
get_state_value_subscript(sts, state_type) ==
    IF state_type \in DOMAIN sts
    THEN [error |-> NoError, value |-> sts[state_type]]
    ELSE [error |-> Err("KeyError", state_type), value |-> NoneValue]

\* self.__onward_states__.get(state_type): the error raised and the value
get_state_value(sts, state_type) ==
    [error |-> NoError,
     value |-> IF state_type \in DOMAIN sts THEN sts[state_type] ELSE NoneValue]

(***************************************************************************)
(* Initial state: the Plan class exists with an empty registry             *)
(***************************************************************************)
Init ==
    /\ executorKind \in ExecutorKinds
    /\ loopClosed \in (IF executorKind = "AsyncioExecutor" THEN BOOLEAN ELSE {FALSE})
    /\ operations = <<>>
    /\ graph = EmptyGraph
    /\ instances = 0
    /\ states = <<>>
    /\ inflight = <<>>
    /\ pc = "idle"
    /\ lastCall = Call("class", "-", NoError)
    /\ tracker = <<>>
    /\ submitted = <<>>
    /\ surfaced = <<>>
    /\ writes = <<>>
    /\ lastJoin = [error |-> NoError, value |-> NoneValue, key |-> "-"]
    /\ joins = 0
    /\ calls = 0

\* @operation applied to a function declaration, while the module declaring
\* the Plan is imported
Register(fn) ==
    /\ pc = "idle"
    /\ ~graph.prepared
    /\ Len(operations) < MaxOps
    /\ LET r == operation(fn, operations)
       IN  /\ operations' = r.ops
           /\ lastCall' = Call("operation", fn, r.error)
    /\ UNCHANGED <<executorKind, loopClosed, graph, instances, states, inflight,
                   pc, tracker, submitted, surfaced, writes, lastJoin, joins, calls>>

\* SomePlan(): a PlanInstance is constructed
Construct ==
    /\ pc = "idle"
    /\ LET r == PlanInit(graph, operations)
       IN  /\ graph' = r.graph
           /\ instances' = IF r.error = NoError THEN instances + 1 ELSE instances
           /\ lastCall' = Call("Plan", "-", r.error)
    /\ UNCHANGED <<executorKind, loopClosed, operations, states, inflight,
                   pc, tracker, submitted, surfaced, writes, lastJoin, joins, calls>>

\* plan.start_or_resume() is called
StartOrResume ==
    /\ pc = "idle"
    /\ instances > 0
    /\ calls < MaxCalls
    /\ pc' = "running"
    /\ calls' = calls + 1
    /\ lastCall' = Call("start_or_resume", "running", NoError)
    /\ UNCHANGED <<executorKind, loopClosed, operations, graph, instances, states,
                   inflight, tracker, submitted, surfaced, writes, lastJoin, joins>>

\* while self.plan_active: false, the call returns
LoopExit ==
    /\ pc = "running"
    /\ ~GraphIsActive(graph)
    /\ pc' = "idle"
    /\ lastCall' = Call("start_or_resume", "returned", NoError)
    /\ UNCHANGED <<executorKind, loopClosed, operations, graph, instances, states,
                   inflight, tracker, submitted, surfaced, writes, lastJoin,
                   joins, calls>>

\* an iteration whose ready batch is not empty
LoopDispatch ==
    /\ pc = "running"
    /\ GraphIsActive(graph)
    /\ graph.ready # <<>>
    /\ LET d == Dispatch(graph.ready, operations, states,
                         executorKind, loopClosed, inflight)
       IN  /\ graph' = GraphGetReady(graph)
           /\ surfaced' = surfaced \o graph.ready
           /\ inflight' = d.inflight
           /\ submitted' = submitted \o d.submitted
           /\ pc' = IF d.error = NoError THEN "running" ELSE "idle"
           /\ lastCall' = IF d.error = NoError THEN lastCall
                          ELSE Call("start_or_resume", "dispatch", d.error)
    /\ UNCHANGED <<executorKind, loopClosed, operations, instances, states,
                   tracker, writes, lastJoin, joins, calls>>

\* an iteration whose ready batch is empty: join_next, record, mark done
LoopJoin ==
    /\ pc = "running"
    /\ GraphIsActive(graph)
    /\ graph.ready = <<>>
    /\ \E r \in join_next(executorKind, loopClosed, inflight) :
          LET o == RecordResult(r, states, graph)
          IN  /\ inflight' = r.inflight
              /\ tracker' = tracker \o r.ran
              /\ states' = o.states
              /\ graph' = o.graph
              /\ writes' = writes \o o.wrote
              /\ lastJoin' = [error |-> r.error, value |-> r.value, key |-> r.key]
              /\ joins' = joins + 1
              /\ pc' = IF o.error = NoError THEN "running" ELSE "idle"
              /\ lastCall' = IF o.error = NoError THEN lastCall
                             ELSE Call("start_or_resume", "join", o.error)
    /\ UNCHANGED <<executorKind, loopClosed, operations, instances,
                   submitted, surfaced, calls>>

\* a worker thread, or the event loop while it runs inside join_next
\* (run_until_complete), calls a unit
BodyRun(i) ==
    /\ executorKind \in {"ThreadedExecutor", "AsyncioExecutor"}
    /\ executorKind = "AsyncioExecutor" => pc # "idle"
    /\ inflight[i].st = "pending"
    /\ \E o \in BodyOutcomes(inflight[i]) :
          LET u == Invoke(inflight[i], o)
          IN  /\ inflight' = [inflight EXCEPT ![i] = u]
              /\ tracker' = tracker \o Entered(u)
    /\ UNCHANGED <<executorKind, loopClosed, operations, graph, instances, states,
                   pc, lastCall, submitted, surfaced, writes, lastJoin, joins, calls>>

Next ==
    \/ \E fn \in Functions : Register(fn)
    \/ Construct
    \/ StartOrResume
    \/ LoopExit
    \/ LoopDispatch
    \/ LoopJoin
    \/ \E i \in 1..Len(inflight) : BodyRun(i)

Spec == Init /\ [][Next]_vars

(***************************************************************************)
(* The executor of the Plan class driven directly through its interface:   *)
(* add_operations, add_async_operations and join_next(timeout), with units *)
(* built by the descriptors of three declarations.                         *)
(***************************************************************************)
DirectFunctions ==
    {fn \in Functions : fn.name \in {"operation1", "operation4", "operation7"}}

\* the values handed to the descriptors as arguments
DirectStates == [t \in StateTypes |-> t]

DirectUnits(isAsync) ==
    {Unit(operation(fn, <<>>).ops[1], DirectStates) :
        fn \in {f \in DirectFunctions : f.isAsync = isAsync}}

Batches(units) ==
    {<<>>} \cup {<<u>> : u \in units} \cup {<<u, v>> : u \in units, v \in units}

\* executor.add_operations with a batch of immediate units
AddOperations(batch) ==
    /\ pc = "idle"
    /\ Len(submitted) + Len(batch) <= MaxSubmits
    /\ LET r == add_operations(executorKind, loopClosed, inflight, batch)
       IN  /\ inflight' = r.inflight
           /\ submitted' = IF r.error = NoError
                            THEN submitted \o UnitKeys(batch) ELSE submitted
           /\ lastCall' = Call("add_operations", UnitKeys(batch), r.error)
    /\ UNCHANGED <<executorKind, loopClosed, operations, graph, instances, states,
                   pc, tracker, surfaced, writes, lastJoin, joins, calls>>

\* executor.add_async_operations with a batch of suspension-capable units
AddAsyncOperations(batch) ==
    /\ pc = "idle"
    /\ Len(submitted) + Len(batch) <= MaxSubmits
    /\ LET r == add_async_operations(executorKind, loopClosed, inflight, batch)
       IN  /\ inflight' = r.inflight
           /\ submitted' = IF r.error = NoError
                            THEN submitted \o UnitKeys(batch) ELSE submitted
           /\ lastCall' = Call("add_async_operations", UnitKeys(batch), r.error)
    /\ UNCHANGED <<executorKind, loopClosed, operations, graph, instances, states,
                   pc, tracker, surfaced, writes, lastJoin, joins, calls>>

\* executor.join_next(timeout) is entered, with a timeout or with None
JoinNextCall(timed) ==
    /\ pc = "idle"
    /\ joins < MaxJoins
    /\ pc' = IF timed THEN "join_timed" ELSE "join"
    /\ lastCall' = Call("join_next", timed, NoError)
    /\ UNCHANGED <<executorKind, loopClosed, operations, graph, instances, states,
                   inflight, tracker, submitted, surfaced, writes, lastJoin,
                   joins, calls>>

\* join_next returns a pair or raises
JoinNextReturn ==
    /\ pc \in {"join", "join_timed", "join_expired"}
    /\ \E r \in join_next(executorKind, loopClosed, inflight) :
          /\ inflight' = r.inflight
          /\ tracker' = tracker \o r.ran
          /\ lastJoin' = [error |-> r.error, value |-> r.value, key |-> r.key]
          /\ lastCall' = Call("join_next", "-", r.error)
    /\ joins' = joins + 1
    /\ pc' = "idle"
    /\ UNCHANGED <<executorKind, loopClosed, operations, graph, instances, states,
                   submitted, surfaced, writes, calls>>

\* the window of a join_next(timeout) ends while no in-flight unit has finished
WindowExpires ==
    /\ pc = "join_timed"
    /\ inflight # <<>>
    /\ Finished(inflight) = {}
    /\ LET rs == join_next_expiry(executorKind, loopClosed, inflight)
       IN  IF rs = {}
           THEN /\ pc' = "join_expired"
                /\ UNCHANGED <<inflight, lastJoin, lastCall, joins>>
           ELSE \E r \in rs :
                   /\ inflight' = r.inflight
                   /\ lastJoin' = [error |-> r.error, value |-> r.value,
                                   key |-> r.key]
                   /\ lastCall' = Call("join_next", "-", r.error)
                   /\ joins' = joins + 1
                   /\ pc' = "idle"
    /\ UNCHANGED <<executorKind, loopClosed, operations, graph, instances, states,
                   tracker, submitted, surfaced, writes, calls>>

NextExec ==
    \/ \E batch \in Batches(DirectUnits(FALSE)) : AddOperations(batch)
    \/ \E batch \in Batches(DirectUnits(TRUE)) : AddAsyncOperations(batch)
    \/ \E timed \in BOOLEAN : JoinNextCall(timed)
    \/ JoinNextReturn
    \/ WindowExpires
    \/ \E i \in 1..Len(inflight) : BodyRun(i)

SpecExec == Init /\ [][NextExec]_vars

(***************************************************************************)
(* Properties                                                              *)
(***************************************************************************)
NoDuplicates(s) == \A i, j \in 1..Len(s) : i # j => s[i] # s[j]

Reverse(s) == [i \in 1..Len(s) |-> s[Len(s) + 1 - i]]

DependencyKeys(key) == Range(StateDependencies(Lookup(operations, key)))

\* C1: a unit is handed to the executor only when every state type its
\* operation depends on is marked done in the graph; a state type marked done
\* has its value in the result mapping; and every body runs after the bodies
\* producing its dependencies, so the execution order is a linear extension
\* of the dependency edges.
C1_HappensBefore ==
    /\ \A i \in 1..Len(submitted) :
          \A d \in DependencyKeys(submitted[i]) :
             d \in Nodes(graph) /\ graph.npred[d] = NODE_DONE
    /\ \A n \in Nodes(graph) :
          (IsStateType(n) /\ graph.npred[n] = NODE_DONE) => n \in DOMAIN states
    /\ \A i \in 1..Len(tracker) :
          \A d \in DependencyKeys(tracker[i]) :
             \E j \in 1..(i - 1) : tracker[j] = d

\* a run under the thread pool completed in which an operation with two state
\* dependencies ran after both producers
C1_Witness ==
    /\ executorKind = "ThreadedExecutor"
    /\ lastCall = Call("start_or_resume", "returned", NoError)
    /\ \E i \in 1..Len(tracker) : Cardinality(DependencyKeys(tracker[i])) = 2

BodyFaults == {"BodyError", "InvalidOperationReturnError"}

\* C2: the first start_or_resume on an instance of an acyclic registry, in
\* which no body raised or returned a value of the wrong type and the executor
\* accepts every registered flavor, ends by returning, with plan_active false,
\* every node done and a value recorded for every output-producing operation.
C2_RunCompletes ==
    ( /\ pc = "idle"
      /\ calls = 1
      /\ lastCall.name = "start_or_resume"
      /\ lastCall.error.kind \notin BodyFaults
      /\ \A i \in 1..Len(inflight) : inflight[i].error.kind \notin BodyFaults
      /\ ~loopClosed
      /\ executorKind # "AsyncioExecutor" =>
            \A i \in 1..Len(operations) : ~operations[i].isAsync )
    => ( /\ lastCall.error = NoError
         /\ ~GraphIsActive(graph)
         /\ \A n \in Nodes(graph) : graph.npred[n] = NODE_DONE
         /\ \A i \in 1..Len(operations) :
               IsStateType(operations[i].provides) =>
                  operations[i].provides \in DOMAIN states )

FnKey(fn) == IF fn.returns # NoneType THEN fn.returns ELSE fn.name

ValidSignature(fn) ==
    /\ fn.returns \in StateTypes \cup {NoneType}
    /\ Len(fn.params) > 0
    /\ \A i \in 1..Len(fn.params) : fn.params[i] \in StateTypes \cup {PlanType}

\* C3: registering a well-formed declaration raises TooManyProvidersError
\* exactly when its OutputKey is already a key of the registry, leaving the
\* registry unchanged; otherwise it succeeds and inserts the descriptor under
\* its OutputKey.
C3_DuplicateProvider ==
    [][ \A fn \in Functions :
           (Register(fn) /\ ValidSignature(fn)) =>
              IF FnKey(fn) \in Keys(operations)
              THEN /\ lastCall'.error.kind = "TooManyProvidersError"
                   /\ operations' = operations
              ELSE /\ lastCall'.error = NoError
                   /\ Len(operations') = Len(operations) + 1
                   /\ SubSeq(operations', 1, Len(operations)) = operations
                   /\ OperationId(operations'[Len(operations')]) = FnKey(fn) ]_vars

RegistryHasCycle == HasCycle(AddRegistry(EmptyGraph, operations))

\* C4: constructing a PlanInstance over a registry whose dependency edges
\* contain a cycle raises CycleError, and nothing has been dispatched or
\* executed.
C4_CycleError ==
    (lastCall.name = "Plan" /\ RegistryHasCycle)
    => ( /\ lastCall.error.kind = "CycleError"
         /\ submitted = <<>>
         /\ tracker = <<>> )

\* C5: once a PlanInstance exists, constructing a PlanInstance succeeds and
\* leaves a graph in which no node has been passed out or marked done.
C5_FreshGraph ==
    (lastCall.name = "Plan" /\ instances >= 1)
    => ( /\ lastCall.error = NoError
         /\ graph.npassedout = 0
         /\ graph.nfinished = 0
         /\ \A n \in Nodes(graph) : graph.npred[n] >= 0 )

\* C6: across the start_or_resume calls on an instance no node is returned by
\* get_ready twice, no key is handed to the executor twice, and no key of the
\* result mapping is written twice; the mapping holds exactly the keys written.
C6_AtMostOnce ==
    /\ NoDuplicates(surfaced)
    /\ NoDuplicates(submitted)
    /\ NoDuplicates(writes)
    /\ DOMAIN states = Range(writes)

\* a second call, made after a call that a failing join ended, records a value
C6_Witness ==
    /\ calls = 2
    /\ joins = Len(writes) + 1
    /\ lastJoin.error = NoError
    /\ IsStateType(lastJoin.key)
    /\ lastJoin.key \in DOMAIN states

\* C7: when join_next raises the exception of an operation body, the call of
\* start_or_resume ends with that same exception, nothing is dispatched, and
\* the result mapping and the graph are what they were before the join.
C7_FailurePropagates ==
    [][ (joins' = joins + 1 /\ lastJoin'.error.kind = "BodyError")
        => ( /\ \E i \in 1..Len(inflight) : inflight[i].key = lastJoin'.error.by
             /\ pc' = "idle"
             /\ lastCall'.name = "start_or_resume"
             /\ lastCall'.error = lastJoin'.error
             /\ states' = states
             /\ writes' = writes
             /\ graph' = graph
             /\ submitted' = submitted
             /\ surfaced' = surfaced ) ]_vars

\* a call ended with a body's exception after values had been recorded
C7_Witness ==
    /\ pc = "idle"
    /\ lastCall.name = "start_or_resume"
    /\ lastCall.error.kind = "BodyError"
    /\ lastJoin.error = lastCall.error
    /\ Len(writes) >= 1

\* C8: under every executor, a join_next made while no unit is in flight
\* raises NotRunningError.
C8_NotRunning ==
    [][ (joins' = joins + 1 /\ inflight = <<>>)
        => lastJoin'.error.kind = "NotRunningError" ]_vars

Serial == executorKind = "SynchronousExecutor"

\* C9: under the SynchronousExecutor a submission appends the units to the
\* schedule and runs no body, and a join_next calls exactly the unit submitted
\* last among those not yet joined and removes it.
C9_SerialLifo ==
    [][ Serial =>
          /\ submitted' # submitted =>
                /\ tracker' = tracker
                /\ Len(submitted') > Len(submitted)
                /\ UnitKeys(inflight') =
                      UnitKeys(inflight)
                      \o SubSeq(submitted', Len(submitted) + 1, Len(submitted'))
          /\ (joins' = joins + 1 /\ inflight # <<>>) =>
                /\ lastJoin'.key = inflight[Len(inflight)].key
                /\ inflight' = SubSeq(inflight, 1, Len(inflight) - 1)
                /\ tracker' = tracker \o Entered(inflight[Len(inflight)])
          /\ (joins' = joins /\ submitted' = submitted) =>
                (inflight' = inflight /\ tracker' = tracker) ]_vars

\* three units submitted in one batch were executed in reverse order
C9_Witness ==
    /\ Serial
    /\ Len(submitted) = 3
    /\ surfaced = submitted
    /\ \A i \in 1..3 : DependencyKeys(submitted[i]) = {}
    /\ tracker = Reverse(submitted)

\* C10: a unit that returned carries the none-marker when its operation
\* declares no output, and an instance of the declared type otherwise; so does
\* the pair join_next returned.
C10_WrapperValue ==
    /\ \A i \in 1..Len(inflight) :
          inflight[i].st = "returned" =>
             inflight[i].value =
                (IF inflight[i].provides = NoneType THEN NoneValue
                 ELSE inflight[i].provides)
    /\ (joins > 0 /\ lastJoin.error = NoError) =>
          lastJoin.value =
             (IF IsStateType(lastJoin.key) THEN lastJoin.key ELSE NoneValue)

\* C11: on a PlanInstance in any state, get_state_value of any state type
\* raises nothing; it yields the recorded instance of that type when the
\* type's producer has been joined and recorded, and None otherwise, also for
\* a type that no registered operation provides.
C11_GetStateValue ==
    instances > 0 =>
       \A t \in StateTypes :
          LET r == get_state_value(states, t)
          IN  /\ r.error = NoError
              /\ r.value = (IF t \in Range(writes) THEN t ELSE NoneValue)

\* after a run that a body's exception ended: one type is recorded, one type's
\* producer never completed, and one type has no producer
C11_Witness ==
    /\ instances > 0
    /\ pc = "idle"
    /\ lastCall.error.kind = "BodyError"
    /\ \E t \in Keys(operations) \cap StateTypes :
          get_state_value(states, t).value = t
    /\ \E t \in Keys(operations) \cap StateTypes :
          get_state_value(states, t).value = NoneValue
    /\ \E t \in StateTypes \ Keys(operations) :
          get_state_value(states, t).value = NoneValue

\* C12: add_async_operations on the SynchronousExecutor or the
\* ThreadedExecutor raises AsyncNotSupported for every batch and leaves the
\* units in flight as they were; on the AsyncioExecutor (loop open) it raises
\* nothing and every unit of the batch is in flight afterwards, not started.
C12_AsyncNotSupported ==
    [][ \A batch \in Batches(DirectUnits(TRUE)) :
           AddAsyncOperations(batch) =>
              IF executorKind \in {"SynchronousExecutor", "ThreadedExecutor"}
              THEN /\ lastCall'.error.kind = "AsyncNotSupported"
                   /\ inflight' = inflight
                   /\ submitted' = submitted
              ELSE ~loopClosed =>
                   /\ lastCall'.error = NoError
                   /\ \A i \in 1..Len(batch) :
                         \E j \in 1..Len(inflight') : inflight'[j] = batch[i]
                   /\ \A j \in 1..Len(inflight') :
                         \/ \E i \in 1..Len(batch) : inflight'[j] = batch[i]
                         \/ \E i \in 1..Len(inflight) :
                               /\ inflight'[j] = inflight[i]
                               /\ \A k \in 1..Len(batch) :
                                     batch[k].key # inflight[i].key ]_vars

\* a thread pool with a unit in flight has rejected a batch of coroutines
C12_Witness ==
    /\ executorKind = "ThreadedExecutor"
    /\ lastCall.name = "add_async_operations"
    /\ lastCall.arg # <<>>
    /\ lastCall.error.kind = "AsyncNotSupported"
    /\ inflight # <<>>

\* C13: under the ThreadedExecutor and the AsyncioExecutor, when the window of
\* a join_next(timeout) ends and no in-flight unit has finished, the call ends
\* at that instant (it is not left waiting for a unit) and the units in flight
\* are the ones in flight before the call.
C13_TimeoutExpires ==
    [][ (WindowExpires /\ executorKind \in {"ThreadedExecutor", "AsyncioExecutor"})
        => ( /\ pc' = "idle"
             /\ joins' = joins + 1
             /\ inflight' = inflight ) ]_vars

\* C14: the nodes of the graph built by Plan.__init__ are exactly the keys of
\* the registry, every key returned by get_ready has a descriptor, and the
\* descriptor lookup of the dispatch branch never raises KeyError.
C14_GraphNodes ==
    /\ graph.prepared => Nodes(graph) = Keys(operations)
    /\ Range(surfaced) \subseteq Keys(operations)
    /\ ~(lastCall.name = "start_or_resume" /\ lastCall.error.kind = "KeyError")

\* C15: a unit built by a registered operation's descriptor binds every
\* declared parameter to exactly one argument, the argument resolved for the
\* dependency at the parameter's position, so calling the unit never fails to
\* bind a parameter.
C15_ParameterBinding ==
    /\ \A i \in 1..Len(inflight) :
          LET op == Lookup(operations, inflight[i].key)
          IN  /\ inflight[i].callable
              /\ \A p \in 1..Len(op.dependencies) :
                    op.hint_map[op.dependencies[p]] = p
    /\ lastJoin.error.kind # "TypeError"

Predecessors(g, n) == {m \in Nodes(g) : n \in Range(g.succ[m])}

\* C16: whenever start_or_resume calls join_next, every graph node whose
\* predecessors are all done has been handed to the executor, and every key
\* get_ready returned has been submitted.
C16_DispatchExhausted ==
    [][ (joins' = joins + 1)
        => ( /\ \A n \in Nodes(graph) :
                   (\A m \in Predecessors(graph, n) : graph.npred[m] = NODE_DONE)
                      => n \in Range(submitted)
             /\ Range(surfaced) \subseteq Range(submitted) ) ]_vars

\* C17: no join_next of a run returns None paired with a state type, and an
\* InvalidOperationReturnError that ends start_or_resume is always the one the
\* descriptor's wrapper raised and join_next passed on, never the one of the
\* orchestrator's own check; a unit that returned for a state type carries a
\* value.
C17_NoNoneForStateKey ==
    /\ (joins > 0 /\ lastJoin.error = NoError /\ IsStateType(lastJoin.key))
          => lastJoin.value # NoneValue
    /\ (lastCall.name = "start_or_resume"
          /\ lastCall.error.kind = "InvalidOperationReturnError")
          => lastJoin.error = lastCall.error
    /\ \A i \in 1..Len(inflight) :
          (inflight[i].st = "returned" /\ IsStateType(inflight[i].key))
             => inflight[i].value # NoneValue

\* the body of an operation declaring a state type ran and the wrapper
\* rejected what it returned; the error ended the run after a value was recorded
C17_Witness ==
    /\ lastCall.name = "start_or_resume"
    /\ lastCall.error.kind = "InvalidOperationReturnError"
    /\ IsStateType(lastCall.error.by)
    /\ lastJoin.error = lastCall.error
    /\ \E i \in 1..Len(tracker) : tracker[i] = lastCall.error.by
    /\ lastCall.error.by \notin DOMAIN states
    /\ Len(writes) >= 1

NoOutputNames == {operations[i].name : i \in {j \in 1..Len(operations) :
                                                operations[j].provides = NoneType}}

\* C18: an operation declaring no output is a node of the graph under its
\* function name; it is handed to the executor only when its state
\* dependencies are done; once joined its node is done and counted by the
\* graph, so a run returns only when it is done; and the result mapping holds
\* only state types of registered operations whose node is done.
C18_NoOutputNode ==
    /\ graph.prepared => NoOutputNames \subseteq Nodes(graph)
    /\ \A i \in 1..Len(submitted) :
          submitted[i] \in NoOutputNames =>
             \A d \in DependencyKeys(submitted[i]) : graph.npred[d] = NODE_DONE
    /\ (joins > 0 /\ lastJoin.error = NoError /\ lastJoin.key \in NoOutputNames)
          => graph.npred[lastJoin.key] = NODE_DONE
    /\ graph.nfinished = Cardinality({n \in Nodes(graph) : graph.npred[n] = NODE_DONE})
    /\ lastCall = Call("start_or_resume", "returned", NoError)
          => \A n \in NoOutputNames : graph.npred[n] = NODE_DONE
    /\ \A k \in DOMAIN states \cup Range(writes) :
          /\ IsStateType(k)
          /\ k \in Keys(operations)
          /\ graph.npred[k] = NODE_DONE

\* a run returned in which a no-output operation with state dependencies was
\* the last unit joined
C18_Witness ==
    /\ lastCall = Call("start_or_resume", "returned", NoError)
    /\ lastJoin.key \in NoOutputNames
    /\ DependencyKeys(lastJoin.key) # {}
    /\ DependencyKeys(lastJoin.key) \subseteq DOMAIN states
    /\ graph.npred[lastJoin.key] = NODE_DONE

\* C19: under every executor, a join_next that returns (value, key) returns
\* the result of one unit that was in flight (submitted and not joined
\* before): the unit the call ran (SynchronousExecutor) or a unit that had
\* finished with that value (ThreadedExecutor, AsyncioExecutor); exactly that
\* unit leaves the units in flight, the others stay as they were; and only a
\* submission or a join changes which units are in flight.
C19_JoinRemovesOne ==
    [][ /\ (joins' = joins + 1 /\ lastJoin'.error = NoError) =>
              \E i \in 1..Len(inflight) :
                 /\ inflight[i].key = lastJoin'.key
                 /\ inflight' = RemoveAt(inflight, i)
                 /\ IF Serial
                    THEN /\ inflight[i].st = "pending"
                         /\ tracker' = tracker \o <<inflight[i].key>>
                    ELSE /\ inflight[i].st = "returned"
                         /\ inflight[i].value = lastJoin'.value
                         /\ tracker' = tracker
        /\ (joins' = joins /\ submitted' = submitted) =>
              UnitKeys(inflight') = UnitKeys(inflight) ]_vars

\* with three units in flight on a thread pool or an event loop, a join
\* returned the result of the second one while the others were still pending
C19_Witness ==
    /\ ~Serial
    /\ Len(submitted) = 3
    /\ joins = 1
    /\ lastJoin.error = NoError
    /\ lastJoin.key = submitted[2]
    /\ Len(inflight) = 2
    /\ \A i \in 1..2 : inflight[i].st = "pending"

\* C20: during the first start_or_resume on a constructed instance, whenever
\* the graph is active and has no ready node, at least one unit is in flight
\* and the executor reports running, so join_next has a unit to wait for; and
\* that call never ends with NotRunningError.
C20_NeverNotRunning ==
    /\ (pc = "running" /\ calls = 1 /\ GraphIsActive(graph) /\ graph.ready = <<>>)
          => ( /\ inflight # <<>>
               /\ running(executorKind, loopClosed, inflight) )
    /\ (calls = 1 /\ lastCall.name = "start_or_resume")
          => lastCall.error.kind \notin {"NotRunningError", "StopIteration"}

\* in the first run, after a value was joined and recorded, the graph is
\* active without a ready node and units are still in flight
C20_Witness ==
    /\ pc = "running"
    /\ calls = 1
    /\ GraphIsActive(graph)
    /\ graph.ready = <<>>
    /\ joins >= 1
    /\ lastJoin.error = NoError
    /\ Len(inflight) >= 1
    /\ \A i \in 1..Len(inflight) : inflight[i].error = NoError

\* C21: when the dispatch branch of start_or_resume raises, the units in
\* flight on the executor are the ones in flight before the branch ran: no
\* unit of the ready batch has been added.
C21_DispatchAllOrNothing ==
    [][ (LoopDispatch /\ pc' = "idle")
        => ( /\ lastCall'.error # NoError
             /\ inflight' = inflight
             /\ submitted' = submitted ) ]_vars

UnitFaults == BodyFaults \cup {"TypeError"}

\* C22: under every executor, when join_next raises what the call of an
\* in-flight unit raised, exactly that unit has left the units in flight, and
\* running is computed from the remaining ones.
C22_FailedUnitRemoved ==
    [][ (joins' = joins + 1 /\ lastJoin'.error.kind \in UnitFaults)
        => ( /\ \E i \in 1..Len(inflight) :
                   /\ inflight[i].key = lastJoin'.error.by
                   /\ inflight' = RemoveAt(inflight, i)
             /\ running(executorKind, loopClosed, inflight')
                   = (Len(inflight) > 1 \/ loopClosed) ) ]_vars

Completed ==
    /\ instances > 0
    /\ calls >= 1
    /\ \A n \in Nodes(graph) : graph.npred[n] = NODE_DONE

\* C23: once every node of the instance's graph is done, a start_or_resume
\* call only returns: from then on no body is executed, nothing is handed to
\* the executor or joined, the result mapping and the graph stay as they are,
\* and a call that is running ends by returning without an error.
C23_IdempotentAfterCompletion ==
    [][ Completed
        => ( /\ tracker' = tracker
             /\ submitted' = submitted
             /\ surfaced' = surfaced
             /\ inflight' = inflight
             /\ joins' = joins
             /\ states' = states
             /\ writes' = writes
             /\ graph' = graph
             /\ pc = "running" =>
                   /\ pc' = "idle"
                   /\ lastCall' = Call("start_or_resume", "returned", NoError) )
      ]_vars

\* a second call returned on an instance whose first call had run two bodies
\* to completion without any error
C23_Witness ==
    /\ calls = 2
    /\ pc = "idle"
    /\ lastCall = Call("start_or_resume", "returned", NoError)
    /\ Completed
    /\ joins = graph.nfinished
    /\ surfaced = submitted
    /\ Len(tracker) >= 2
    /\ states # <<>>

====
